---- MODULE Spec2Model ----
(***************************************************************************)
(* State-machine model of ComplaintsAnalyzer (src/src/analysis.py).        *)
(*                                                                         *)
(* A pandas DataFrame is a record [nrows, cols]; cols is the ordered list  *)
(* of columns, each [name, dtype, values].  Python strings on which the    *)
(* code performs substring tests or case conversion (column names, cell    *)
(* texts, keywords) are sequences of one-character strings, so that `in`   *)
(* and .lower() are computed and not assumed.  Python dicts are functions, *)
(* Python lists are sequences.  Cell values are                            *)
(*    None            a missing value of an object column                   *)
(*    NaT             a missing value of a datetime64 column                *)
(*    Str(s)          a Python str                                          *)
(*    Timestamp(y,m,d) a pandas Timestamp at midnight                       *)
(* memory_usage_mb (analysis.py:64) is a platform dependent float that no  *)
(* property below reads; it is left out of the overview record.            *)
(***************************************************************************)
EXTENDS Integers, Sequences, FiniteSets, TLC

VARIABLES data, analysis_results, op, ret, schema, reported

vars == <<data, analysis_results, op, ret, schema, reported>>

(***************************************************************************)
(* Bounds of the model.                                                    *)
(***************************************************************************)
MaxRows == 4
MaxN == 2

(***************************************************************************)
(* Strings.                                                                *)
(***************************************************************************)
sBilling == <<"b", "i", "l", "l", "i", "n", "g">>
sService == <<"s", "e", "r", "v", "i", "c", "e">>
sAccount == <<"a", "c", "c", "o", "u", "n", "t">>
sProduct == <<"p", "r", "o", "d", "u", "c", "t">>
sFraud == <<"f", "r", "a", "u", "d">>
sOther == <<"o", "t", "h", "e", "r">>

cComplaint == <<"C", "o", "m", "p", "l", "a", "i", "n", "t">>
cComplaintLc == <<"c", "o", "m", "p", "l", "a", "i", "n", "t">>
cDescription == <<"D", "e", "s", "c", "r", "i", "p", "t", "i", "o", "n">>
cDescriptionLc == <<"d", "e", "s", "c", "r", "i", "p", "t", "i", "o", "n">>
cIssue == <<"I", "s", "s", "u", "e">>
cIssueLc == <<"i", "s", "s", "u", "e">>
cDate == <<"D", "a", "t", "e">>
cDateLc == <<"d", "a", "t", "e">>
cSubIssue == <<"S", "u", "b", "-", "i", "s", "s", "u", "e">>
cSubIssueLc == <<"s", "u", "b", "-", "i", "s", "s", "u", "e">>
cSub_issue == <<"S", "u", "b", "_", "i", "s", "s", "u", "e">>
cComplaint_Category ==
    <<"C", "o", "m", "p", "l", "a", "i", "n", "t", "_",
      "C", "a", "t", "e", "g", "o", "r", "y">>
cDate_Received == <<"D", "a", "t", "e", "_", "R", "e", "c", "e", "i", "v", "e", "d">>
cDate_Resolved == <<"D", "a", "t", "e", "_", "R", "e", "s", "o", "l", "v", "e", "d">>
cClosed_Date == <<"C", "l", "o", "s", "e", "d", "_", "D", "a", "t", "e">>
cSubmit_Date == <<"S", "u", "b", "m", "i", "t", "_", "D", "a", "t", "e">>
cProduct == <<"P", "r", "o", "d", "u", "c", "t">>

kDate == <<"d", "a", "t", "e">>
kSubmit == <<"s", "u", "b", "m", "i", "t">>
kReceived == <<"r", "e", "c", "e", "i", "v", "e", "d">>
kResolve == <<"r", "e", "s", "o", "l", "v", "e">>
kClose == <<"c", "l", "o", "s", "e">>

UpperLetters ==
    <<"A", "B", "C", "D", "E", "F", "G", "H", "I", "J", "K", "L", "M",
      "N", "O", "P", "Q", "R", "S", "T", "U", "V", "W", "X", "Y", "Z">>
LowerLetters ==
    <<"a", "b", "c", "d", "e", "f", "g", "h", "i", "j", "k", "l", "m",
      "n", "o", "p", "q", "r", "s", "t", "u", "v", "w", "x", "y", "z">>
Digits == <<"0", "1", "2", "3", "4", "5", "6", "7", "8", "9">>

\* str.lower() on one character, then on a string
UpperToLower ==
    [c \in {UpperLetters[i] : i \in 1..Len(UpperLetters)} |->
        LowerLetters[CHOOSE i \in 1..Len(UpperLetters) : UpperLetters[i] = c]]

LowerChar(c) == IF c \in DOMAIN UpperToLower THEN UpperToLower[c] ELSE c

lower(s) == [i \in 1..Len(s) |-> LowerChar(s[i])]

\* Python's `k in s` on strings
Contains(s, k) ==
    \E i \in 0..(Len(s) - Len(k)) : SubSeq(s, i + 1, i + Len(k)) = k

\* Python's `x in list`
InSeq(x, seq) == \E i \in 1..Len(seq) : seq[i] = x

(***************************************************************************)
(* Cell values.                                                            *)
(***************************************************************************)
None == [t |-> "None"]
NaT == [t |-> "NaT"]
NaN == [t |-> "nan"]
Str(s) == [t |-> "str", s |-> s]
\* a number held in a float64 series
Num(n) == [t |-> "num", v |-> n]
Timestamp(y, m, d) == [t |-> "Timestamp", y |-> y, m |-> m, d |-> d]

isnull(v) == v.t \in {"None", "NaT"}

Ok(v) == [kind |-> "ok", value |-> v]
Raise(e) == [kind |-> "raise", exc |-> e]

\* raise ValueError("No data loaded. Call load_data() first.")
NotLoaded == Raise("ValueError: No data loaded. Call load_data() first.")
\* pandas.to_datetime on a value it cannot parse (DateParseError is a ValueError)
DateParseError == Raise("ValueError: DateParseError")

\* self.complaint_categories, a dict in insertion order
complaint_categories ==
    << [category |-> sBilling,
        keywords |-> << <<"b", "i", "l", "l", "i", "n", "g">>,
                        <<"c", "h", "a", "r", "g", "e">>,
                        <<"p", "a", "y", "m", "e", "n", "t">>,
                        <<"i", "n", "v", "o", "i", "c", "e">>,
                        <<"f", "e", "e">> >>],
       [category |-> sService,
        keywords |-> << <<"s", "e", "r", "v", "i", "c", "e">>,
                        <<"s", "u", "p", "p", "o", "r", "t">>,
                        <<"r", "e", "s", "p", "o", "n", "s", "e">>,
                        <<"i", "s", "s", "u", "e">>,
                        <<"r", "e", "s", "o", "l", "u", "t", "i", "o", "n">> >>],
       [category |-> sAccount,
        keywords |-> << <<"a", "c", "c", "o", "u", "n", "t">>,
                        <<"a", "c", "c", "e", "s", "s">>,
                        <<"l", "o", "g", "i", "n">>,
                        <<"s", "e", "c", "u", "r", "i", "t", "y">>,
                        <<"p", "a", "s", "s", "w", "o", "r", "d">> >>],
       [category |-> sProduct,
        keywords |-> << <<"p", "r", "o", "d", "u", "c", "t">>,
                        <<"o", "f", "f", "e", "r">>,
                        <<"f", "e", "a", "t", "u", "r", "e">>,
                        <<"b", "e", "n", "e", "f", "i", "t", "s">>,
                        <<"t", "e", "r", "m", "s">> >>],
       [category |-> sFraud,
        keywords |-> << <<"f", "r", "a", "u", "d">>,
                        <<"u", "n", "a", "u", "t", "h", "o", "r", "i", "z", "e", "d">>,
                        <<"s", "t", "o", "l", "e", "n">>,
                        <<"s", "u", "s", "p", "i", "c", "i", "o", "u", "s">>,
                        <<"s", "e", "c", "u", "r", "i", "t", "y", " ",
                          "b", "r", "e", "a", "c", "h">> >>] >>

(***************************************************************************)
(* DataFrame helpers.                                                      *)
(***************************************************************************)
\* self.data.columns
Columns(df) == [i \in 1..Len(df.cols) |-> df.cols[i].name]

\* `col in self.data.columns`
HasColumn(df, name) == InSeq(name, Columns(df))

ColIndex(df, name) == CHOOSE i \in 1..Len(df.cols) : df.cols[i].name = name

\* self.data[name]
Column(df, name) == df.cols[ColIndex(df, name)]

\* a column assignment that always adds a column
SetColumn_append(df, name, dtype, values) ==
    [df EXCEPT !.cols = Append(df.cols,
                               [name |-> name, dtype |-> dtype, values |-> values])]

\* self.data[name] = values : replaces the column in place when the name
\* exists, appends a new last column otherwise
SetColumn(df, name, dtype, values) ==
    LET c == [name |-> name, dtype |-> dtype, values |-> values] IN
    IF HasColumn(df, name)
    THEN [df EXCEPT !.cols[ColIndex(df, name)] = c]
    ELSE [df EXCEPT !.cols = Append(df.cols, c)]

\* first alias of the list that is a column, or None
FirstAlias(df, aliases) ==
    IF \E i \in 1..Len(aliases) : HasColumn(df, aliases[i])
    THEN LET i == CHOOSE j \in 1..Len(aliases) :
                    /\ HasColumn(df, aliases[j])
                    /\ \A k \in 1..(j - 1) : ~HasColumn(df, aliases[k])
         IN Str(aliases[i])
    ELSE None

(***************************************************************************)
(* get_data_overview                                                       *)
(***************************************************************************)
ColumnNames(df) == {df.cols[i].name : i \in 1..Len(df.cols)}

\* self.data.isnull().sum().to_dict()
MissingValues(df) ==
    [name \in ColumnNames(df) |->
        LET c == Column(df, name)
        IN Cardinality({i \in 1..Len(c.values) : isnull(c.values[i])})]

\* self.data.dtypes.to_dict()
DataTypes(df) == [name \in ColumnNames(df) |-> Column(df, name).dtype]

get_data_overview(df) ==
    IF df = None THEN NotLoaded
    ELSE Ok([total_complaints |-> df.nrows,
             total_columns |-> Len(df.cols),
             missing_values |-> MissingValues(df),
             data_types |-> DataTypes(df)])

(***************************************************************************)
(* Dates: pandas.to_datetime, Period('M'), Timedelta.days                  *)
(***************************************************************************)
\* int() on one decimal digit
DigitTable ==
    [c \in {Digits[i] : i \in 1..Len(Digits)} |->
        (CHOOSE i \in 1..Len(Digits) : Digits[i] = c) - 1]

IsDigit(c) == c \in DOMAIN DigitTable
DigitVal(c) == DigitTable[c]

IsLeap(y) == (y % 4 = 0 /\ y % 100 # 0) \/ y % 400 = 0

DaysInMonth(y, m) ==
    IF m = 2 THEN (IF IsLeap(y) THEN 29 ELSE 28)
    ELSE IF m \in {4, 6, 9, 11} THEN 30 ELSE 31

\* the strings to_datetime reads as NaT
nat_strings ==
    { <<>>, <<"N", "a", "T">>, <<"n", "a", "t">>, <<"N", "A", "T">>,
      <<"n", "a", "n">>, <<"N", "a", "N">>, <<"N", "A", "N">> }

\* an ISO 8601 calendar date YYYY-MM-DD
IsIsoShape(s) ==
    /\ Len(s) = 10
    /\ s[5] = "-" /\ s[8] = "-"
    /\ \A i \in {1, 2, 3, 4, 6, 7, 9, 10} : IsDigit(s[i])

IsoYear(s) == DigitVal(s[1]) * 1000 + DigitVal(s[2]) * 100
                + DigitVal(s[3]) * 10 + DigitVal(s[4])
IsoMonth(s) == DigitVal(s[6]) * 10 + DigitVal(s[7])
IsoDay(s) == DigitVal(s[9]) * 10 + DigitVal(s[10])

IsIsoDate(s) ==
    /\ IsIsoShape(s)
    /\ IsoMonth(s) \in 1..12
    /\ IsoDay(s) \in 1..DaysInMonth(IsoYear(s), IsoMonth(s))

\* to_datetime on one value: a Timestamp, NaT, or "unparsable"
Unparsable == [t |-> "unparsable"]

\* a conversion that reads strings only and coerces the rest to NaT
ParseDate_stringsOnly(v) ==
    IF v.t = "Timestamp" THEN NaT
    ELSE IF isnull(v) THEN NaT
    ELSE IF v.s \in nat_strings THEN NaT
    ELSE IF IsIsoDate(v.s) THEN Timestamp(IsoYear(v.s), IsoMonth(v.s), IsoDay(v.s))
    ELSE Unparsable

ParseDate(v) ==
    IF v.t = "Timestamp" THEN v
    ELSE IF isnull(v) THEN NaT
    ELSE IF v.s \in nat_strings THEN NaT
    ELSE IF IsIsoDate(v.s) THEN Timestamp(IsoYear(v.s), IsoMonth(v.s), IsoDay(v.s))
    ELSE Unparsable

\* the error to_datetime raises when a value did not parse, else the values
RaiseIfUnparsable(conv) ==
    IF \E i \in 1..Len(conv) : conv[i] = Unparsable
    THEN DateParseError
    ELSE Ok(conv)

\* pd.to_datetime(series): the converted values, or the error it raises
to_datetime(values) ==
    RaiseIfUnparsable([i \in 1..Len(values) |-> ParseDate(values[i])])

\* series.dt.to_period('M') on one value
to_period(v) == [y |-> v.y, m |-> v.m]

PeriodLess(p, q) == p.y < q.y \/ (p.y = q.y /\ p.m < q.m)

\* str(Period) : "YYYY-MM"
TwoDigits(n) == <<Digits[(n \div 10) + 1], Digits[(n % 10) + 1]>>
PeriodStr(p) ==
    TwoDigits(p.y \div 100) \o TwoDigits(p.y % 100) \o <<"-">> \o TwoDigits(p.m)

\* days since 1970-01-01 of a Timestamp (proleptic Gregorian calendar)
DayNumber(v) ==
    LET y == IF v.m <= 2 THEN v.y - 1 ELSE v.y
        era == y \div 400
        yoe == y - era * 400
        mp == (v.m + 9) % 12
        doy == (153 * mp + 2) \div 5 + v.d - 1
        doe == yoe * 365 + yoe \div 4 - yoe \div 100 + doy
    IN era * 146097 + doe - 719468

\* (resolved - submitted).dt.days on one row; NaN when either side is NaT
DaysBetween(resolved, submitted) ==
    IF isnull(resolved) \/ isnull(submitted) THEN NaN
    ELSE Num(DayNumber(resolved) - DayNumber(submitted))

(***************************************************************************)
(* analyze_complaint_volume                                                *)
(***************************************************************************)
\* the periods of the non-null values of a datetime column
PeriodsOf(values) ==
    {to_period(values[i]) : i \in {j \in 1..Len(values) : ~isnull(values[j])}}

\* the keys of a groupby, which sorts them ascending
RECURSIVE SortPeriods(_)
SortPeriods(S) ==
    IF S = {} THEN <<>>
    ELSE LET p == CHOOSE x \in S : \A z \in S \ {x} : PeriodLess(x, z)
         IN <<p>> \o SortPeriods(S \ {p})

\* self.data.groupby(self.data[date_col].dt.to_period('M')).size()
\* a Series: the sorted index and the group sizes
GroupByMonth(values) ==
    LET idx == SortPeriods(PeriodsOf(values)) IN
    [i \in 1..Len(idx) |->
        [key |-> idx[i],
         size |-> Cardinality({j \in 1..Len(values) :
                                  ~isnull(values[j]) /\ to_period(values[j]) = idx[i]})]]

\* the label of the last occurrence of the maximum
idxmax_last(series) ==
    LET i == CHOOSE j \in 1..Len(series) :
                /\ \A k \in 1..Len(series) : series[k].size <= series[j].size
                /\ \A k \in (j + 1)..Len(series) : series[k].size < series[j].size
    IN series[i].key

\* Series.idxmax(): the label of the first occurrence of the maximum
idxmax(series) ==
    LET i == CHOOSE j \in 1..Len(series) :
                /\ \A k \in 1..Len(series) : series[k].size <= series[j].size
                /\ \A k \in 1..(j - 1) : series[k].size < series[j].size
    IN series[i].key

\* Series.to_dict()
SeriesToDict(series) ==
    [p \in {series[i].key : i \in 1..Len(series)} |->
        series[CHOOSE i \in 1..Len(series) : series[i].key = p].size]

NoDateColumn == [error |-> "Date column not found in data"]

\* lines 84-88: the dict returned, given the grouped series
VolumeResult(df, monthly_volume) ==
    [ret |-> Ok([monthly_volume |-> SeriesToDict(monthly_volume),
                 total_volume |-> df.nrows,
                 peak_month |-> IF Len(monthly_volume) > 0
                                THEN Str(PeriodStr(idxmax(monthly_volume)))
                                ELSE None]),
     data |-> df]

\* lines 81-82, given what to_datetime returned or raised
VolumeConverted(df, date_col, conv) ==
    IF conv.kind = "raise" THEN [ret |-> conv, data |-> df]
    ELSE VolumeResult(SetColumn(df, date_col, "datetime64[ns]", conv.value),
                      GroupByMonth(conv.value))

\* returns [ret, data]: the value returned or raised and self.data afterwards
analyze_complaint_volume(df) ==
    IF df = None THEN [ret |-> NotLoaded, data |-> df]
    ELSE IF HasColumn(df, cDate)
    THEN VolumeConverted(df, cDate, to_datetime(Column(df, cDate).values))
    ELSE IF HasColumn(df, cDateLc)
    THEN VolumeConverted(df, cDateLc, to_datetime(Column(df, cDateLc).values))
    ELSE [ret |-> Ok(NoDateColumn), data |-> df]

(***************************************************************************)
(* categorize_complaints                                                   *)
(***************************************************************************)
desc_aliases ==
    <<cComplaint, cComplaintLc, cDescription, cDescriptionLc, cIssue, cIssueLc>>

\* .fillna('').str.lower() on one value
FillLower(v) == IF isnull(v) THEN <<>> ELSE lower(v.s)

\* any(keyword in complaint for keyword in keywords)
AnyKeyword(complaint, keywords) ==
    \E k \in 1..Len(keywords) : Contains(complaint, keywords[k])

\* the inner loop without its break: the last matching category wins
AssignCategory_noBreak(complaint) ==
    IF \E c \in 1..Len(complaint_categories) :
          AnyKeyword(complaint, complaint_categories[c].keywords)
    THEN LET c == CHOOSE j \in 1..Len(complaint_categories) :
                    /\ AnyKeyword(complaint, complaint_categories[j].keywords)
                    /\ \A k \in (j + 1)..Len(complaint_categories) :
                          ~AnyKeyword(complaint, complaint_categories[k].keywords)
         IN complaint_categories[c].category
    ELSE sOther

\* the inner loop over self.complaint_categories.items() with its break
AssignCategory(complaint) ==
    IF \E c \in 1..Len(complaint_categories) :
          AnyKeyword(complaint, complaint_categories[c].keywords)
    THEN LET c == CHOOSE j \in 1..Len(complaint_categories) :
                    /\ AnyKeyword(complaint, complaint_categories[j].keywords)
                    /\ \A k \in 1..(j - 1) :
                          ~AnyKeyword(complaint, complaint_categories[k].keywords)
         IN complaint_categories[c].category
    ELSE sOther

CategoryKeys == {complaint_categories[c].category : c \in 1..Len(complaint_categories)}

\* dict assignment d[k] = v
DictSet(d, k, v) == [x \in (DOMAIN d) \cup {k} |-> IF x = k THEN v ELSE d[x]]

\* d.get(k, default)
DictGet(d, k, default) == IF k \in DOMAIN d THEN d[k] ELSE default

\* lines 118 and 121-122: the counts after a row assigned to assigned_cat
CountRow(categories, assigned_cat) ==
    IF assigned_cat # sOther
    THEN DictSet(categories, assigned_cat, categories[assigned_cat] + 1)
    ELSE DictSet(categories, sOther, DictGet(categories, sOther, 0) + 1)

\* the loop of lines 113-124 from row i on: the counts and the list it builds
RECURSIVE CategorizeLoop(_, _, _, _)
RECURSIVE CategorizeRow(_, _, _, _, _)
CategorizeRow(texts, i, categories, category_mapping, assigned_cat) ==
    CategorizeLoop(texts, i + 1, CountRow(categories, assigned_cat),
                   Append(category_mapping, assigned_cat))

CategorizeLoop(texts, i, categories, category_mapping) ==
    IF i > Len(texts)
    THEN [categories |-> categories, category_mapping |-> category_mapping]
    ELSE CategorizeRow(texts, i, categories, category_mapping,
                       AssignCategory(FillLower(texts[i])))

\* lines 126-128, given what the loop built
CategorizeResult(df, loop) ==
    [ret |-> Ok(loop.categories),
     data |-> SetColumn(df, cComplaint_Category, "object",
                 [i \in 1..Len(loop.category_mapping) |->
                     Str(loop.category_mapping[i])])]

\* lines 112-128, given the description column found (or None)
CategorizeColumn(df, desc_col) ==
    IF desc_col # None
    THEN CategorizeResult(df, CategorizeLoop(Column(df, desc_col.s).values, 1,
                                             [k \in CategoryKeys |-> 0], <<>>))
    ELSE [ret |-> Ok([k \in CategoryKeys |-> 0]), data |-> df]

\* returns [ret, data]
categorize_complaints(df) ==
    IF df = None THEN [ret |-> NotLoaded, data |-> df]
    ELSE CategorizeColumn(df, FirstAlias(df, desc_aliases))

(***************************************************************************)
(* analyze_resolution_time                                                 *)
(***************************************************************************)
IsDateCol(col) == Contains(lower(col), kDate)
IsSubmittedCol(col) == Contains(lower(col), kSubmit) \/ Contains(lower(col), kReceived)
IsResolvedCol(col) == Contains(lower(col), kResolve) \/ Contains(lower(col), kClose)

RECURSIVE SumSeq(_)
SumSeq(xs) == IF xs = <<>> THEN 0 ELSE Head(xs) + SumSeq(Tail(xs))

RECURSIVE SortInts(_)
SortInts(xs) ==
    IF xs = <<>> THEN <<>>
    ELSE LET i == CHOOSE j \in 1..Len(xs) : \A k \in 1..Len(xs) : xs[j] <= xs[k]
         IN <<xs[i]>> \o SortInts(SubSeq(xs, 1, i - 1) \o SubSeq(xs, i + 1, Len(xs)))

Abs(n) == IF n < 0 THEN -n ELSE n

RECURSIVE GCD(_, _)
GCD(a, b) == IF b = 0 THEN a ELSE GCD(b, a % b)

\* the exact rational num/den (den > 0) in lowest terms, standing for the float
Ratio(num, den) ==
    LET g == GCD(Abs(num), den)
    IN [t |-> "ratio", num |-> num \div g, den |-> den \div g]

\* reductions that read a missing difference as 0
DropNaN_asZero(series) ==
    [i \in 1..Len(series) |-> IF series[i] = NaN THEN 0 ELSE series[i].v]

\* the values of a float64 series that the skipna reductions see
DropNaN(series) ==
    LET kept == SelectSeq(series, LAMBDA x : x # NaN)
    IN [i \in 1..Len(kept) |-> kept[i].v]

SeriesMean(series) ==
    LET xs == DropNaN(series)
    IN IF xs = <<>> THEN NaN ELSE Ratio(SumSeq(xs), Len(xs))

SeriesMedian(series) ==
    LET xs == SortInts(DropNaN(series))
        n == Len(xs)
    IN IF n = 0 THEN NaN
       ELSE IF n % 2 = 1 THEN Ratio(xs[(n + 1) \div 2], 1)
       ELSE Ratio(xs[n \div 2] + xs[n \div 2 + 1], 2)

SeriesMin(series) ==
    LET xs == SortInts(DropNaN(series))
    IN IF xs = <<>> THEN NaN ELSE Ratio(xs[1], 1)

SeriesMax(series) ==
    LET xs == SortInts(DropNaN(series))
    IN IF xs = <<>> THEN NaN ELSE Ratio(xs[Len(xs)], 1)

\* Series.std() with ddof = 1; the float is the square root of the rational
\* variance, which stands for it
SeriesStd(series) ==
    LET xs == DropNaN(series)
        n == Len(xs)
        sq == [i \in 1..n |-> xs[i] * xs[i]]
    IN IF n < 2 THEN NaN
       ELSE [t |-> "sqrt",
             of |-> Ratio(n * SumSeq(sq) - SumSeq(xs) * SumSeq(xs), n * (n - 1))]

EmptyDict == [t |-> "dict"]

\* lines 155-163, given the series of day differences
ResolutionResult(df, resolution_days) ==
    [ret |-> Ok([mean_resolution_days |-> SeriesMean(resolution_days),
                 median_resolution_days |-> SeriesMedian(resolution_days),
                 min_resolution_days |-> SeriesMin(resolution_days),
                 max_resolution_days |-> SeriesMax(resolution_days),
                 std_resolution_days |-> SeriesStd(resolution_days)]),
     data |-> df]

\* line 153
ResolutionDays(resolved, submitted) ==
    [i \in 1..Len(resolved) |-> DaysBetween(resolved[i], submitted[i])]

\* line 151 and on, given what to_datetime of the resolved column gave
ResolutionResolved(df, submitted, resolved, conv) ==
    IF conv.kind = "raise" THEN [ret |-> conv, data |-> df]
    ELSE ResolutionResult(SetColumn(df, resolved, "datetime64[ns]", conv.value),
                          ResolutionDays(conv.value, Column(df, submitted).values))

\* line 150 done: self.data now holds the converted submitted column
ResolutionSubmittedSet(df, submitted, resolved) ==
    ResolutionResolved(df, submitted, resolved,
                       to_datetime(Column(df, resolved).values))

\* line 150, given what to_datetime of the submitted column gave
ResolutionSubmitted(df, submitted, resolved, conv) ==
    IF conv.kind = "raise" THEN [ret |-> conv, data |-> df]
    ELSE ResolutionSubmittedSet(SetColumn(df, submitted, "datetime64[ns]", conv.value),
                                submitted, resolved)

\* lines 149-163, given the columns of each role
ResolutionRoles(df, submitted_col, resolved_col) ==
    IF submitted_col # <<>> /\ resolved_col # <<>>
    THEN ResolutionSubmitted(df, submitted_col[1], resolved_col[1],
                             to_datetime(Column(df, submitted_col[1]).values))
    ELSE [ret |-> Ok(EmptyDict), data |-> df]

\* lines 145-163, given the date-like columns
ResolutionDateCols(df, date_cols) ==
    IF Len(date_cols) >= 2
    THEN ResolutionRoles(df, SelectSeq(date_cols, IsSubmittedCol),
                         SelectSeq(date_cols, IsResolvedCol))
    ELSE [ret |-> Ok(EmptyDict), data |-> df]

\* returns [ret, data]
analyze_resolution_time(df) ==
    IF df = None THEN [ret |-> NotLoaded, data |-> df]
    ELSE ResolutionDateCols(df, SelectSeq(Columns(df), IsDateCol))

(***************************************************************************)
(* get_top_issues                                                          *)
(***************************************************************************)
issue_aliases == <<cSubIssue, cSubIssueLc, cSub_issue, cIssue, cIssueLc>>

\* the distinct non-null values in order of first appearance
RECURSIVE Uniques(_)
Uniques(values) ==
    IF values = <<>> THEN <<>>
    ELSE LET init == Uniques(SubSeq(values, 1, Len(values) - 1))
             last == values[Len(values)]
         IN IF isnull(last) \/ InSeq(last, init) THEN init ELSE Append(init, last)

\* a descending sort that reverses the order of equal counts
RECURSIVE SortByCountDesc_unstable(_)
SortByCountDesc_unstable(series) ==
    IF series = <<>> THEN <<>>
    ELSE LET i == CHOOSE j \in 1..Len(series) :
                     /\ \A k \in 1..Len(series) : series[k][2] <= series[j][2]
                     /\ \A k \in (j + 1)..Len(series) : series[k][2] < series[j][2]
         IN <<series[i]>> \o
            SortByCountDesc_unstable(SubSeq(series, 1, i - 1) \o
                                     SubSeq(series, i + 1, Len(series)))

\* sort_values(ascending=False) that keeps the order of equal counts
RECURSIVE SortByCountDesc(_)
SortByCountDesc(series) ==
    IF series = <<>> THEN <<>>
    ELSE LET i == CHOOSE j \in 1..Len(series) :
                     /\ \A k \in 1..Len(series) : series[k][2] <= series[j][2]
                     /\ \A k \in 1..(j - 1) : series[k][2] < series[j][2]
         IN <<series[i]>> \o
            SortByCountDesc(SubSeq(series, 1, i - 1) \o
                            SubSeq(series, i + 1, Len(series)))

\* Series.value_counts(): (value, count) pairs, missing values dropped,
\* descending count, values of equal count in order of first appearance
value_counts(values) ==
    LET keys == Uniques(values) IN
    SortByCountDesc([i \in 1..Len(keys) |->
        <<keys[i], Cardinality({j \in 1..Len(values) : values[j] = keys[i]})>>])

Min(a, b) == IF a < b THEN a ELSE b
Max(a, b) == IF a > b THEN a ELSE b

\* Series.head(n): the first n rows; for negative n all but the last |n| rows
head(series, n) ==
    IF n >= 0 THEN SubSeq(series, 1, Min(n, Len(series)))
    ELSE SubSeq(series, 1, Max(0, Len(series) + n))

\* get_top_issues without the check of line 175
get_top_issues_unguarded(df, n) ==
    IF df = None THEN Ok(<<>>)
    ELSE LET issue_col == FirstAlias(df, issue_aliases) IN
         IF issue_col # None
         THEN Ok(head(value_counts(Column(df, issue_col.s).values), n))
         ELSE Ok(<<>>)

get_top_issues(df, n) ==
    IF df = None THEN NotLoaded
    ELSE LET issue_col == FirstAlias(df, issue_aliases) IN
         IF issue_col # None
         THEN Ok(head(value_counts(Column(df, issue_col.s).values), n))
         ELSE Ok(<<>>)

(***************************************************************************)
(* generate_summary_report, get_analysis_results                           *)
(***************************************************************************)
DefaultTopN == 10

\* lines 206-210, given the results of the four calls before
ReportTopIssues(ov, vol, cat, res) ==
    IF res.ret.kind = "raise"
    THEN [ret |-> res.ret, data |-> res.data, stored |-> FALSE]
    ELSE [ret |-> Ok([data_overview |-> ov.value,
                      complaint_volume |-> vol.ret.value,
                      complaint_categories |-> cat.ret.value,
                      resolution_time |-> res.ret.value,
                      top_issues |-> get_top_issues(res.data, DefaultTopN).value]),
          data |-> res.data,
          stored |-> TRUE]

\* line 205
ReportResolution(ov, vol, cat) ==
    ReportTopIssues(ov, vol, cat, analyze_resolution_time(cat.data))

\* line 204
ReportCategories(ov, vol) ==
    IF vol.ret.kind = "raise"
    THEN [ret |-> vol.ret, data |-> vol.data, stored |-> FALSE]
    ELSE ReportResolution(ov, vol, categorize_complaints(vol.data))

\* returns [ret, data, stored]: stored is TRUE when line 209 was reached
generate_summary_report(df) ==
    IF df = None THEN [ret |-> NotLoaded, data |-> df, stored |-> FALSE]
    ELSE ReportCategories(get_data_overview(df), analyze_complaint_volume(df))

(***************************************************************************)
(* The record sets a caller loads.  A schema lists columns, each with the  *)
(* values its rows may hold; a record set is a window of at most MaxRows   *)
(* consecutive rows of a schema.                                           *)
(***************************************************************************)
tLateFee == Str(<<"L", "a", "t", "e", " ", "F", "E", "E">>)
tNoResponse == Str(<<"n", "o", " ", "r", "e", "s", "p", "o", "n", "s", "e">>)
tLogin == Str(<<"L", "o", "g", "i", "n">>)
tSecurityBreach ==
    Str(<<"s", "e", "c", "u", "r", "i", "t", "y", " ", "b", "r", "e", "a", "c", "h">>)
tStolenCard == Str(<<"s", "t", "o", "l", "e", "n", " ", "c", "a", "r", "d">>)
tNewTerms == Str(<<"n", "e", "w", " ", "t", "e", "r", "m", "s">>)
tHello == Str(<<"h", "e", "l", "l", "o">>)

d20240210 == Str(<<"2", "0", "2", "4", "-", "0", "2", "-", "1", "0">>)
d20240105 == Str(<<"2", "0", "2", "4", "-", "0", "1", "-", "0", "5">>)
d20240120 == Str(<<"2", "0", "2", "4", "-", "0", "1", "-", "2", "0">>)
d20240131 == Str(<<"2", "0", "2", "4", "-", "0", "1", "-", "3", "1">>)
d20231231 == Str(<<"2", "0", "2", "3", "-", "1", "2", "-", "3", "1">>)
d20240301 == Str(<<"2", "0", "2", "4", "-", "0", "3", "-", "0", "1">>)
d20240101 == Str(<<"2", "0", "2", "4", "-", "0", "1", "-", "0", "1">>)
d20240110 == Str(<<"2", "0", "2", "4", "-", "0", "1", "-", "1", "0">>)
tTbd == Str(<<"t", "b", "d">>)

ObjCol(name, pool) == [name |-> name, dtype |-> "object", pool |-> pool]
DateTimeCol(name, pool) == [name |-> name, dtype |-> "datetime64[ns]", pool |-> pool]

Schemas ==
    << \* a description column only
       << ObjCol(cDescription, <<tNoResponse, tSecurityBreach, None>>) >>,
       \* two description aliases, Issue first in column order
       << ObjCol(cIssue, <<tLogin, tLateFee, tLateFee, tHello, tLogin>>),
          ObjCol(cComplaint, <<tLateFee, tStolenCard, None, tNewTerms, tHello>>) >>,
       \* two issue aliases, Issue first in column order
       << ObjCol(cIssue, <<tHello, tHello, tLogin, None, tLateFee>>),
          ObjCol(cSubIssue, <<tLogin, tLateFee, tLateFee, tLogin, None>>) >>,
       \* both date aliases
       << ObjCol(cDateLc, <<d20240301, d20240301, d20240301, d20240301, d20240301>>),
          ObjCol(cDate, <<d20240210, d20240105, d20240120, d20240131, tTbd>>) >>,
       \* the lower-case date alias; a resolved date with no submitted date
       << ObjCol(cDateLc, <<d20240120, d20231231, None>>),
          DateTimeCol(cDate_Resolved,
                      <<Timestamp(2024, 3, 1), NaT, Timestamp(2024, 1, 5)>>) >>,
       \* a submitted and a resolved date
       << ObjCol(cDate_Received,
                 <<d20240101, d20240101, d20240110, d20231231, d20240210>>),
          ObjCol(cDate_Resolved,
                 <<d20240105, None, d20240105, d20240301, tTbd>>) >>,
       \* several columns for each role
       << ObjCol(cClosed_Date, <<d20240120, d20240131, tTbd>>),
          ObjCol(cDate_Resolved, <<d20240301, d20240301, d20240301>>),
          ObjCol(cSubmit_Date, <<d20240110, None, d20240101>>),
          ObjCol(cDate_Received, <<d20231231, d20231231, tTbd>>) >>,
       \* none of the columns the analyzer looks for, one date-like column
       << ObjCol(cProduct, <<tHello, None>>),
          ObjCol(cDate_Resolved, <<d20240105, tTbd>>) >>,
       \* a complaint record with every kind of column
       << ObjCol(cDate, <<d20240210, d20240105>>),
          ObjCol(cIssue, <<tLateFee, tHello>>),
          ObjCol(cDate_Received, <<d20240101, d20240110>>),
          ObjCol(cDate_Resolved, <<d20240105, tTbd>>) >> >>

TextSchemas == {1, 2}
IssueSchemas == {2, 3, 8}
VolumeSchemas == {4, 5, 8}
ResolutionSchemas == {5, 6, 7, 8}
ReportSchemas == {8, 9}
PureSchemas == {1, 9}

PoolLen(sch) == Len(sch[1].pool)

Frame(sch, start, len) ==
    [nrows |-> len,
     cols |-> [i \in 1..Len(sch) |->
                 [name |-> sch[i].name,
                  dtype |-> sch[i].dtype,
                  values |-> SubSeq(sch[i].pool, start, start + len - 1)]]]

Frames(sch) ==
    {Frame(sch, 1, 0)} \cup
    {Frame(sch, w[1], w[2]) :
        w \in {x \in (1..PoolLen(sch)) \X (1..MaxRows) : x[1] + x[2] - 1 <= PoolLen(sch)}}

\* the n a caller passes to get_top_issues
TopNs == (-MaxN..MaxN) \cup {DefaultTopN}

(***************************************************************************)
(* The state machine.                                                      *)
(*   data, analysis_results  the analyzer's attributes                     *)
(*   op, ret                 the last call made and what it returned       *)
(*   schema                  the schema of the record sets the caller has  *)
(*   reported                a report was generated since the last load    *)
(***************************************************************************)
Call(name) == [name |-> name]
CallN(name, n) == [name |-> name, n |-> n]

\* __init__, data optional
Init ==
    /\ schema \in 1..Len(Schemas)
    /\ data \in {None} \cup Frames(Schemas[schema])
    /\ analysis_results = EmptyDict
    /\ op = Call("__init__")
    /\ ret = Ok(None)
    /\ reported = FALSE

\* a load that also forgets the stored report
Load_clearsReport(r) ==
    /\ data' = r
    /\ op' = Call("load_data")
    /\ ret' = Ok(None)
    /\ reported' = FALSE
    /\ analysis_results' = EmptyDict
    /\ UNCHANGED schema

Load(r) ==
    /\ data' = r
    /\ op' = Call("load_data")
    /\ ret' = Ok(None)
    /\ reported' = FALSE
    /\ UNCHANGED <<analysis_results, schema>>

Overview ==
    /\ op' = Call("get_data_overview")
    /\ ret' = get_data_overview(data)
    /\ UNCHANGED <<data, analysis_results, schema, reported>>

\* the call returned or raised r.ret and left self.data as r.data
Returned(r) ==
    /\ ret' = r.ret
    /\ data' = r.data

AnalyzeVolume ==
    /\ op' = Call("analyze_complaint_volume")
    /\ Returned(analyze_complaint_volume(data))
    /\ UNCHANGED <<analysis_results, schema, reported>>

Categorize ==
    /\ op' = Call("categorize_complaints")
    /\ Returned(categorize_complaints(data))
    /\ UNCHANGED <<analysis_results, schema, reported>>

AnalyzeResolutionTime ==
    /\ op' = Call("analyze_resolution_time")
    /\ Returned(analyze_resolution_time(data))
    /\ UNCHANGED <<analysis_results, schema, reported>>

TopIssues(n) ==
    /\ op' = CallN("get_top_issues", n)
    /\ ret' = get_top_issues(data, n)
    /\ UNCHANGED <<data, analysis_results, schema, reported>>

\* generate_summary_report returned or raised r.ret; line 209 ran if r.stored
Generated(r) ==
    /\ ret' = r.ret
    /\ data' = r.data
    /\ analysis_results' = IF r.stored THEN r.ret.value ELSE analysis_results
    /\ reported' = (reported \/ r.stored)

GenerateReport ==
    /\ op' = Call("generate_summary_report")
    /\ Generated(generate_summary_report(data))
    /\ UNCHANGED schema

LastReport ==
    /\ op' = Call("get_analysis_results")
    /\ ret' = Ok(analysis_results)
    /\ UNCHANGED <<data, analysis_results, schema, reported>>

Next ==
    \/ \E r \in Frames(Schemas[schema]) : Load(r)
    \/ Overview
    \/ AnalyzeVolume
    \/ Categorize
    \/ AnalyzeResolutionTime
    \/ \E n \in TopNs : TopIssues(n)
    \/ GenerateReport
    \/ LastReport

Spec == Init /\ [][Next]_vars

\* the same machine, the caller holding record sets of one family of schemas
InitText == Init /\ schema \in TextSchemas
InitIssues == Init /\ schema \in IssueSchemas
InitVolume == Init /\ schema \in VolumeSchemas
InitResolution == Init /\ schema \in ResolutionSchemas
InitReport == Init /\ schema \in ReportSchemas
InitPure == Init /\ schema \in PureSchemas

SpecText == InitText /\ [][Next]_vars
SpecIssues == InitIssues /\ [][Next]_vars
SpecVolume == InitVolume /\ [][Next]_vars
SpecResolution == InitResolution /\ [][Next]_vars
SpecReport == InitReport /\ [][Next]_vars
SpecPure == InitPure /\ [][Next]_vars

QueryNames ==
    {"get_data_overview", "analyze_complaint_volume", "categorize_complaints",
     "analyze_resolution_time", "get_top_issues", "generate_summary_report"}

(***************************************************************************)
(* Properties.                                                             *)
(***************************************************************************)

\* C1: a query (overview, categorize, volume, resolution time, top issues,
\* generate report) made while no record set is held raises the "no data
\* loaded" error, and get_analysis_results made while no report was ever
\* stored returns the empty report without raising.
C1_QueryBeforeLoadRaises ==
    [][/\ (data = None /\ op'.name \in QueryNames) =>
              /\ ret'.kind = "raise"
              /\ ret'.exc = "ValueError: No data loaded. Call load_data() first."
       /\ (analysis_results = EmptyDict /\ op'.name = "get_analysis_results") =>
              ret' = [kind |-> "ok", value |-> EmptyDict]]_vars

C1_Witness ==
    /\ data = None
    /\ op.name = "get_top_issues"
    /\ ret.kind = "raise"
    /\ analysis_results = EmptyDict

\* C2: after categorize on a record set with a description column, every row
\* carries the first category, in the order billing, service, account,
\* product, fraud, one of whose keywords is a substring of the row's
\* lower-cased text (missing text read as empty), or "other" when no keyword
\* of any category matches; and the count returned for each label is the
\* number of rows carrying that label.
C2_Order == <<sBilling, sService, sAccount, sProduct, sFraud>>

C2_Keywords(cat) ==
    (CHOOSE c \in {complaint_categories[i] : i \in 1..Len(complaint_categories)} :
        c.category = cat).keywords

C2_Matches(text, cat) ==
    \E k \in 1..Len(C2_Keywords(cat)) : Contains(text, C2_Keywords(cat)[k])

C2_DescCol(df) ==
    CHOOSE i \in 1..Len(desc_aliases) :
        /\ HasColumn(df, desc_aliases[i])
        /\ \A j \in 1..(i - 1) : ~HasColumn(df, desc_aliases[j])

C2_FirstMatchingCategory ==
    (/\ op.name = "categorize_complaints"
     /\ data # None
     /\ \E i \in 1..Len(desc_aliases) : HasColumn(data, desc_aliases[i]))
    =>
    LET texts == Column(data, desc_aliases[C2_DescCol(data)]).values
        cats == Column(data, cComplaint_Category).values
        labels == {C2_Order[c] : c \in 1..Len(C2_Order)} \cup {sOther}
    IN /\ ret.kind = "ok"
       /\ HasColumn(data, cComplaint_Category)
       /\ Len(cats) = Len(texts)
       /\ \A i \in 1..Len(texts) :
            LET text == IF isnull(texts[i]) THEN <<>> ELSE lower(texts[i].s) IN
            /\ cats[i].t = "str"
            /\ cats[i].s \in labels
            /\ cats[i].s = sOther <=>
                   \A c \in 1..Len(C2_Order) : ~C2_Matches(text, C2_Order[c])
            /\ \A c \in 1..Len(C2_Order) :
                   cats[i].s = C2_Order[c] <=>
                       /\ C2_Matches(text, C2_Order[c])
                       /\ \A b \in 1..(c - 1) : ~C2_Matches(text, C2_Order[b])
       /\ \A l \in labels :
            (IF l \in DOMAIN ret.value THEN ret.value[l] ELSE 0)
                = Cardinality({i \in 1..Len(cats) : cats[i].s = l})
       /\ DOMAIN ret.value \subseteq labels

\* a text matching both account and fraud keywords is labelled account, a
\* missing text other
C2_Witness ==
    /\ op.name = "categorize_complaints"
    /\ data # None
    /\ HasColumn(data, cDescription)
    /\ Column(data, cDescription).values = <<tNoResponse, tSecurityBreach, None>>
    /\ Column(data, cComplaint_Category).values =
          <<Str(sService), Str(sAccount), Str(sOther)>>
    /\ ret.value[sAccount] = 1 /\ ret.value[sFraud] = 0 /\ ret.value[sOther] = 1

\* C3: categorize is idempotent and touches one column only: a call leaves
\* the row count and every column other than Complaint_Category as they
\* were, leaves at most one Complaint_Category column, and a further call
\* on the result returns the same counts and leaves the record set as it is.
C3_CategorizeIdempotent ==
    [][op'.name = "categorize_complaints" /\ data # None =>
         LET again == categorize_complaints(data') IN
         /\ data'.nrows = data.nrows
         /\ \A i \in 1..Len(data.cols) :
               data.cols[i].name # cComplaint_Category => data'.cols[i] = data.cols[i]
         /\ \A i \in 1..Len(data'.cols) :
               i > Len(data.cols) => data'.cols[i].name = cComplaint_Category
         /\ Cardinality({i \in 1..Len(data'.cols) :
                            data'.cols[i].name = cComplaint_Category}) <= 1
         /\ again.ret = ret'
         /\ again.data = data'
         /\ (op.name = "categorize_complaints" => ret' = ret /\ data' = data)]_vars

C3_Witness ==
    /\ op.name = "categorize_complaints"
    /\ data # None
    /\ data.nrows = 3
    /\ Len(data.cols) = 3
    /\ HasColumn(data, cComplaint_Category)
    /\ ret.kind = "ok"

\* C4: overview, analyze_volume, analyze_resolution_time and top_issues leave
\* the held record set unchanged.
C4_ReadOnlyQueriesKeepData ==
    [][op'.name \in {"get_data_overview", "analyze_complaint_volume",
                     "analyze_resolution_time", "get_top_issues"}
         => data' = data]_vars

\* what each query returns when called in a state holding df
StableResults(df) ==
    [categorize |-> categorize_complaints(df).ret,
     volume |-> analyze_complaint_volume(df).ret,
     resolution |-> analyze_resolution_time(df).ret,
     top |-> [n \in TopNs |-> get_top_issues(df, n)]]

AllResults(df) ==
    [stable |-> StableResults(df),
     overview |-> get_data_overview(df),
     report |-> generate_summary_report(df).ret]

\* C5 as stated: every query returns the same result before and after any
\* call that is not a load.
C5_AllQueriesPure ==
    [][op'.name # "load_data" => AllResults(data') = AllResults(data)]_vars

\* C5 amended: categorize, volume, resolution time and top issues return the
\* same result before and after any call that is not a load; overview and
\* generate report do so once a report was generated since the last load.
C5_StableQueriesPure ==
    [][(op'.name # "load_data" /\ data' # data) =>
         /\ StableResults(data') = StableResults(data)
         /\ reported => AllResults(data') = AllResults(data)]_vars

\* a second report after a first one, on data the first one changed
C5_Witness ==
    /\ op.name = "generate_summary_report"
    /\ ret.kind = "ok"
    /\ reported
    /\ schema = 9
    /\ data.nrows = 1
    /\ HasColumn(data, cComplaint_Category)
    /\ Column(data, cDate).dtype = "datetime64[ns]"
    /\ ret.value.data_overview.total_columns = Len(data.cols)
    /\ ret.value = analysis_results

\* C6: top issues with n <= 0 is the empty ranking on every loaded record set.
C6_NonPositiveNEmpty ==
    (op.name = "get_top_issues" /\ data # None /\ op.n <= 0)
        => ret = [kind |-> "ok", value |-> <<>>]

\* C7: for n > 0, top issues reads the first of Sub-issue, sub-issue,
\* Sub_issue, Issue, issue that is a column and returns min(n, number of
\* distinct non-missing values) pairs of a value and its exact number of
\* occurrences, by descending count, values of equal count in order of first
\* appearance; no value left out precedes a value returned.
C7_Aliases == <<cSubIssue, cSubIssueLc, cSub_issue, cIssue, cIssueLc>>

C7_FirstIndex(values, v) ==
    CHOOSE i \in 1..Len(values) :
        values[i] = v /\ \A j \in 1..(i - 1) : values[j] # v

C7_Count(values, v) == Cardinality({i \in 1..Len(values) : values[i] = v})

\* v ranks before w
C7_Before(values, v, w) ==
    \/ C7_Count(values, v) > C7_Count(values, w)
    \/ /\ C7_Count(values, v) = C7_Count(values, w)
       /\ C7_FirstIndex(values, v) < C7_FirstIndex(values, w)

C7_TopIssuesRanking ==
    (op.name = "get_top_issues" /\ data # None /\ op.n > 0)
    =>
    /\ ret.kind = "ok"
    /\ (\A a \in 1..Len(C7_Aliases) : ~HasColumn(data, C7_Aliases[a]))
          => ret.value = <<>>
    /\ (\E a \in 1..Len(C7_Aliases) : HasColumn(data, C7_Aliases[a])) =>
          LET a == CHOOSE x \in 1..Len(C7_Aliases) :
                      /\ HasColumn(data, C7_Aliases[x])
                      /\ \A y \in 1..(x - 1) : ~HasColumn(data, C7_Aliases[y])
              values == Column(data, C7_Aliases[a]).values
              distinct == {values[i] : i \in {j \in 1..Len(values) : ~isnull(values[j])}}
              top == ret.value
              chosen == {top[i][1] : i \in 1..Len(top)}
          IN /\ Len(top) = (IF op.n < Cardinality(distinct)
                            THEN op.n ELSE Cardinality(distinct))
             /\ chosen \subseteq distinct
             /\ Cardinality(chosen) = Len(top)
             /\ \A i \in 1..Len(top) : top[i][2] = C7_Count(values, top[i][1])
             /\ \A i \in 1..Len(top) : \A j \in (i + 1)..Len(top) :
                   C7_Before(values, top[i][1], top[j][1])
             /\ \A v \in distinct \ chosen : \A w \in chosen :
                   C7_Before(values, w, v)

\* Late FEE twice, Login (met first) and hello once each: the top 2 are
\* Late FEE, then Login
C7_Witness ==
    /\ op.name = "get_top_issues"
    /\ op.n = 2
    /\ data # None
    /\ HasColumn(data, cIssue)
    /\ ~HasColumn(data, cSubIssue)
    /\ Column(data, cIssue).values = <<tLogin, tLateFee, tLateFee, tHello>>
    /\ ret = [kind |-> "ok", value |-> << <<tLateFee, 2>>, <<tLogin, 1>> >>]

\* C8: a generate report call that completes stores the report it returns;
\* one that raises, a load and every other call leave the stored report as
\* it was; get_analysis_results returns the stored report.
C8_ReportCached ==
    [][/\ (op'.name = "generate_summary_report" /\ ret'.kind = "ok")
             => analysis_results' = ret'.value
       /\ (op'.name = "generate_summary_report" /\ ret'.kind = "raise")
             => analysis_results' = analysis_results
       /\ op'.name # "generate_summary_report"
             => analysis_results' = analysis_results
       /\ op'.name = "get_analysis_results"
             => ret' = [kind |-> "ok", value |-> analysis_results]]_vars

\* a generation that raised after an earlier one had completed
C8_Witness ==
    /\ op.name = "generate_summary_report"
    /\ ret.kind = "raise"
    /\ data # None
    /\ analysis_results # EmptyDict
    /\ analysis_results.data_overview.total_complaints # data.nrows

\* C9: with a Date (else date) column, analyze volume returns for each
\* calendar month the number of rows dated in it, the number of rows of the
\* record set, and as peak month the month of greatest count, the earliest
\* one among equals; without such a column it returns the "no date column"
\* value.
C9_VolumeByMonth ==
    (op.name = "analyze_complaint_volume" /\ data # None /\ ret.kind = "ok")
    =>
    IF HasColumn(data, cDate) \/ HasColumn(data, cDateLc)
    THEN LET dates == Column(data, IF HasColumn(data, cDate)
                                   THEN cDate ELSE cDateLc).values
             dated == {i \in 1..Len(dates) : dates[i].t = "Timestamp"}
             months == {[y |-> dates[i].y, m |-> dates[i].m] : i \in dated}
             count(p) == Cardinality({i \in dated : dates[i].y = p.y /\ dates[i].m = p.m})
             mv == ret.value.monthly_volume
         IN /\ DOMAIN mv = months
            /\ \A p \in months : mv[p] = count(p)
            /\ ret.value.total_volume = data.nrows
            /\ months = {} => ret.value.peak_month = None
            /\ months # {} =>
                 \E p \in months :
                    /\ ret.value.peak_month = Str(PeriodStr(p))
                    /\ \A q \in months :
                          \/ count(q) < count(p)
                          \/ /\ count(q) = count(p)
                             /\ (q.y > p.y \/ (q.y = p.y /\ q.m >= p.m))
    ELSE ret.value = [error |-> "Date column not found in data"]

\* one February row then three January rows: {2024-01: 3, 2024-02: 1},
\* peak 2024-01, total 4
C9_Witness ==
    /\ op.name = "analyze_complaint_volume"
    /\ data # None
    /\ HasColumn(data, cDate)
    /\ Column(data, cDate).values =
          <<Timestamp(2024, 2, 10), Timestamp(2024, 1, 5),
            Timestamp(2024, 1, 20), Timestamp(2024, 1, 31)>>
    /\ ret = [kind |-> "ok",
              value |-> [monthly_volume |-> ([y |-> 2024, m |-> 1] :> 3) @@
                                            ([y |-> 2024, m |-> 2] :> 1),
                         total_volume |-> 4,
                         peak_month |-> Str(<<"2", "0", "2", "4", "-", "0", "1">>)]]

\* C10: with at least two date-like columns, a submitted and a resolved one
\* (the first of each in column order), analyze resolution time returns mean,
\* median, minimum, maximum and sample standard deviation of resolved minus
\* submitted in days over exactly the rows having both dates, negative
\* differences included; otherwise it returns the empty result.
C10_DateLike(df) == {i \in 1..Len(df.cols) : IsDateCol(df.cols[i].name)}
C10_Submitted(df) == {i \in C10_DateLike(df) : IsSubmittedCol(df.cols[i].name)}
C10_Resolved(df) == {i \in C10_DateLike(df) : IsResolvedCol(df.cols[i].name)}
C10_First(S) == CHOOSE i \in S : \A j \in S : i <= j

RECURSIVE C10_Sum(_, _)
C10_Sum(S, f) ==
    IF S = {} THEN 0
    ELSE LET i == CHOOSE x \in S : TRUE IN f[i] + C10_Sum(S \ {i}, f)

\* the rational r equals a/b
C10_Eq(r, a, b) == r.t = "ratio" /\ r.num * b = a * r.den

C10_ResolutionStats ==
    (op.name = "analyze_resolution_time" /\ data # None /\ ret.kind = "ok")
    =>
    IF /\ Cardinality(C10_DateLike(data)) >= 2
       /\ C10_Submitted(data) # {}
       /\ C10_Resolved(data) # {}
    THEN LET sub == data.cols[C10_First(C10_Submitted(data))].values
             res == data.cols[C10_First(C10_Resolved(data))].values
             both == {i \in 1..data.nrows :
                         sub[i].t = "Timestamp" /\ res[i].t = "Timestamp"}
             days == [i \in both |-> DayNumber(res[i]) - DayNumber(sub[i])]
             n == Cardinality(both)
             total == C10_Sum(both, days)
             sqdev == [i \in both |-> (n * days[i] - total) * (n * days[i] - total)]
             below(x) == Cardinality({i \in both : days[i] < x})
             upto(x) == Cardinality({i \in both : days[i] <= x})
             r == ret.value
         IN IF n = 0
            THEN /\ r.mean_resolution_days = NaN
                 /\ r.median_resolution_days = NaN
                 /\ r.min_resolution_days = NaN
                 /\ r.max_resolution_days = NaN
                 /\ r.std_resolution_days = NaN
            ELSE /\ C10_Eq(r.mean_resolution_days, total, n)
                 /\ \E i, j \in both :
                       /\ below(days[i]) <= (n - 1) \div 2
                       /\ upto(days[i]) >= (n + 1) \div 2
                       /\ below(days[j]) <= n \div 2
                       /\ upto(days[j]) >= n \div 2 + 1
                       /\ C10_Eq(r.median_resolution_days, days[i] + days[j], 2)
                 /\ \E i \in both :
                       /\ \A j \in both : days[i] <= days[j]
                       /\ C10_Eq(r.min_resolution_days, days[i], 1)
                 /\ \E i \in both :
                       /\ \A j \in both : days[i] >= days[j]
                       /\ C10_Eq(r.max_resolution_days, days[i], 1)
                 /\ IF n < 2 THEN r.std_resolution_days = NaN
                    ELSE /\ r.std_resolution_days.t = "sqrt"
                         /\ C10_Eq(r.std_resolution_days.of,
                                   C10_Sum(both, sqdev), n * n * (n - 1))
    ELSE ret.value = [t |-> "dict"]

\* rows {2024-01-01, 2024-01-05} and {2024-01-01, missing}: the mean is 4
C10_Witness ==
    /\ op.name = "analyze_resolution_time"
    /\ data # None
    /\ HasColumn(data, cDate_Received)
    /\ data.nrows = 2
    /\ Column(data, cDate_Received).values = <<Timestamp(2024, 1, 1), Timestamp(2024, 1, 1)>>
    /\ Column(data, cDate_Resolved).values = <<Timestamp(2024, 1, 5), NaT>>
    /\ ret.kind = "ok"
    /\ ret.value.mean_resolution_days = [t |-> "ratio", num |-> 4, den |-> 1]
    /\ ret.value.std_resolution_days = NaN
====
